---- MODULE Spec2Model ----
(***************************************************************************)
(* Model of the report-generation pipeline of clima-scope:                 *)
(*   backend/app/services/pipeline.py   PipelineExecution, PipelineService *)
(*   backend/app/api/v1/pipeline.py     process_report, cancel_pipeline    *)
(*                                                                         *)
(* The service runs on one asyncio event loop.  A coroutine runs without   *)
(* interruption until it reaches a real suspension point; in               *)
(* execute_pipeline these are the two asyncio.sleep calls (inside          *)
(* _generate_narratives and inside _generate_pdf).  Each action below is   *)
(* one such uninterrupted run of code; other requests (cancel, a new       *)
(* process_report) are served between them.                                *)
(*                                                                         *)
(* The relational store is an external collaborator: the county lookup     *)
(* reads the seeded table, and the insert of the weather report either     *)
(* returns the new row id or raises.  (With app/models/weather_report.py   *)
(* as it stands the WeatherReport constructor is handed a `status` keyword *)
(* the model class does not define, so in the repository as shipped only   *)
(* the raising outcome occurs; the model keeps both outcomes so that the   *)
(* orchestrator code after the insert is covered.)                         *)
(*                                                                         *)
(* Five specifications share the variables:                                *)
(*   Spec          the pipeline: process_report, execute_pipeline, cancel  *)
(*   StoreSpec     backend/app/services/map_storage.py: store_map,         *)
(*                 get_map, delete_map on the files and their sidecars     *)
(*   SourceSpec    the same calls with source files of zero bytes          *)
(*   WeekSpec      the same calls and list_maps for periods of several     *)
(*                 weeks and years                                         *)
(*   RegistrySpec  create_pipeline and list_pipelines on registries that   *)
(*                 earlier requests have filled                            *)
(*                                                                         *)
(* A stored binary is addressed by its path, <<county_id, year, week       *)
(* digits, file name>>, the file name being the tuple of the values it is  *)
(* formatted from; a sidecar by the same path without the extension.       *)
(***************************************************************************)
EXTENDS Integers, Sequences, FiniteSets, TLC

VARIABLES
    active_pipelines,   \* PipelineService.active_pipelines: id -> PipelineExecution
    tasks,              \* the execute_pipeline coroutine of each id: position and locals
    weather_reports,    \* rows of table weather_reports (row id = position)
    map_files,          \* map binaries under MapStorageService.base_path: path -> bytes
    map_sidecars,       \* their .meta.json files: path -> parsed JSON, or None if unreadable
    clock,              \* what datetime.utcnow() returns
    last_call,          \* the last pipeline call served and what it returned
    last_store          \* the last MapStorageService call and what it returned

vars == <<active_pipelines, tasks, weather_reports, map_files, map_sidecars, clock,
          last_call, last_store>>

\* ---------------------------------------------------------------- bounds
MaxPipelines == 1
MaxClock == 2
\* executions in a registry that create_pipeline and list_pipelines are run on
MaxRegistered == 2

\* ------------------------------------------------------------- constants
\* Optional values: Python's None, and a present value v
None == << >>
Some(v) == <<v>>

PipelineIds == 1..MaxPipelines

\* PipelineStage
VALIDATING == "validating"
GENERATING_NARRATIVES == "generating_narratives"
AWAITING_MAPS == "awaiting_maps"
GENERATING_PDF == "generating_pdf"
STORING_ARTIFACTS == "storing_artifacts"
STAGE_COMPLETED == "completed"
STAGE_FAILED == "failed"

\* PipelineStatus
PENDING == "pending"
RUNNING == "running"
COMPLETED == "completed"
FAILED == "failed"
CANCELLED == "cancelled"

TerminalStatuses == {COMPLETED, FAILED, CANCELLED}

\* _validate_input: required_fields, in the order the loop visits them
required_fields == <<"county_id", "county_name", "period", "variables", "metadata">>

required_fields_set == { required_fields[i] : i \in 1..Len(required_fields) }

\* MapVariable, in the order _check_maps visits them
MapVariables == <<"rainfall", "temperature", "wind">>

\* ---------------------------------------------------------------- inputs
\* rows of table counties (seeded reference data)
CountyTable == {"31"}

CountyIds == {"31", "99"}

\* request.raw_data, as the set of its top-level keys
RawPayloads ==
    { {"county_id", "county_name", "period", "variables", "metadata"},
      {"county_name", "period", "variables", "metadata"},
      {"county_id", "county_name", "variables"} }

\* request.period_start: a date <<year, month, day>>; <<0, 0, 0>> stands for
\* a string datetime.fromisoformat rejects
PeriodStarts == { <<2026, 1, 27>>, <<0, 0, 0>> }
PeriodEnds == { <<2026, 2, 2>> }

\* map binaries that may already lie in the storage directory (none of
\* them, or all)
MapCandidates ==
    { <<"31", "rainfall", <<2026, 1, 27>>, <<2026, 2, 2>>, "png">>,
      <<"31", "temperature", <<2026, 1, 27>>, <<2026, 2, 2>>, "svg">> }

\* MapFormat values the store is called with
MapFormats == {"png", "svg"}

\* source_file: the bytes of an existing file, or None for a path that
\* does not exist
SourceFiles == {Some("a"), Some("b"), None}

\* the metadata argument of store_map when it is None or {}
NoMetadata == [resolution_dpi |-> 300, extra |-> {}]

\* the metadata argument of store_map: the named field resolution_dpi and
\* the keys MapMetadata.__init__ collects in **kwargs
MetadataInputs ==
    { NoMetadata,
      [resolution_dpi |-> 150, extra |-> {<<"source", "gfs">>}] }

\* what happens to the sidecar write: written, open() fails (file as it
\* was), or the write fails after open() truncated the file
SidecarWrites == {"ok", "open_failed", "write_failed"}

\* ------------------------------------------------------ PipelineExecution
PipelineExecution(county_id, period_start, period_end, raw_data) ==
    [ county_id |-> county_id,
      period_start |-> period_start,
      period_end |-> period_end,
      raw_data |-> raw_data,
      status |-> PENDING,
      current_stage |-> VALIDATING,
      progress |-> 0,
      started_at |-> None,
      completed_at |-> None,
      error |-> None,
      weather_report_id |-> None,
      complete_report_id |-> None,
      pdf_report_id |-> None,
      stages_completed |-> << >>,
      current_stage_started_at |-> None ]

start(e, now) ==
    [e EXCEPT !.status = RUNNING, !.started_at = Some(now), !.progress = 0]

\* update_stage that forgets to store the progress it is given
update_stage_keeps_progress(e, stage, progress, now) ==
    [e EXCEPT !.stages_completed =
                  IF e.current_stage # STAGE_FAILED
                  THEN Append(@, e.current_stage) ELSE @,
              !.current_stage = stage,
              !.current_stage_started_at = Some(now)]

update_stage(e, stage, progress, now) ==
    [e EXCEPT !.stages_completed =
                  IF e.current_stage # STAGE_FAILED
                  THEN Append(@, e.current_stage) ELSE @,
              !.current_stage = stage,
              !.current_stage_started_at = Some(now),
              !.progress = progress]

\* complete() that forgets to set status
complete_without_status(e, now) ==
    [e EXCEPT !.current_stage = STAGE_COMPLETED,
              !.progress = 100,
              !.completed_at = Some(now)]

\* complete() that forgets to set progress
complete_without_progress(e, now) ==
    [e EXCEPT !.status = COMPLETED,
              !.current_stage = STAGE_COMPLETED,
              !.completed_at = Some(now)]

complete(e, now) ==
    [e EXCEPT !.status = COMPLETED,
              !.current_stage = STAGE_COMPLETED,
              !.progress = 100,
              !.completed_at = Some(now)]

\* fail() that forgets to set status
fail_without_status(e, error, now) ==
    [e EXCEPT !.current_stage = STAGE_FAILED,
              !.error = Some(error),
              !.completed_at = Some(now)]

fail(e, error, now) ==
    [e EXCEPT !.status = FAILED,
              !.current_stage = STAGE_FAILED,
              !.error = Some(error),
              !.completed_at = Some(now)]

\* ---------------------------------------------------------- stage bodies
\* datetime.fromisoformat on a YYYY-MM-DD string: a calendar date or ValueError
IsLeapYear(y) == (y % 4 = 0 /\ y % 100 # 0) \/ y % 400 = 0

DaysInMonth(y, m) ==
    IF m = 2 THEN (IF IsLeapYear(y) THEN 29 ELSE 28)
    ELSE IF m \in {4, 6, 9, 11} THEN 30 ELSE 31

fromisoformat_ok(d) ==
    /\ d[1] \in 1..9999
    /\ d[2] \in 1..12
    /\ d[3] \in 1..DaysInMonth(d[1], d[2])

\* date.toordinal: days since 0001-01-01, which is day 1 and a Monday
days_before_year(year) ==
    LET y == year - 1 IN y * 365 + y \div 4 - y \div 100 + y \div 400

RECURSIVE days_before_month(_, _)
days_before_month(year, month) ==
    IF month <= 1 THEN 0
    ELSE days_before_month(year, month - 1) + DaysInMonth(year, month - 1)

toordinal(d) == days_before_year(d[1]) + days_before_month(d[1], d[2]) + d[3]

\* the ordinal of the Monday that starts ISO week 1 of a year
isoweek1monday(year) ==
    LET firstday == toordinal(<<year, 1, 1>>)
        firstweekday == (firstday + 6) % 7
        week1monday == firstday - firstweekday
    IN  IF firstweekday > 3 THEN week1monday + 7 ELSE week1monday

\* a week number counted from 1 January in blocks of seven days
isocalendar_week_from_new_year(d) == (days_before_month(d[1], d[2]) + d[3] - 1) \div 7 + 1

\* date.isocalendar()[1]
isocalendar_week(d) ==
    LET today == toordinal(d)
        week == (today - isoweek1monday(d[1])) \div 7
    IN  IF week < 0
        THEN (today - isoweek1monday(d[1] - 1)) \div 7 + 1
        ELSE IF week >= 52 /\ today >= isoweek1monday(d[1] + 1)
        THEN 1
        ELSE week + 1

\* f"{week:02d}": the two digits of the week directory's name
week_dir(week) == <<week \div 10, week % 10>>

\* _build_file_name: the parts of
\* {county_id}_{variable}_{period_start}_{period_end}.{ext}
_build_file_name(county_id, variable, period_start, period_end, format) ==
    <<county_id, variable, period_start, period_end, format>>

\* _build_storage_path: base_path / county_id / str(year) / f"{week:02d}"
_build_storage_path(county_id, period_start) ==
    <<county_id, period_start[1], week_dir(isocalendar_week(period_start))>>

\* storage_dir / file_name
map_path(county_id, variable, period_start, period_end, format) ==
    Append(_build_storage_path(county_id, period_start),
           _build_file_name(county_id, variable, period_start, period_end, format))

\* Path.with_suffix(".meta.json"): the same directory, the file name without
\* its extension
_metadata_path(map_file_path) ==
    [map_file_path EXCEPT ![4] = SubSeq(map_file_path[4], 1, 4)]

\* _validate_input that omits the county lookup
_validate_input_without_county(e) ==
    LET missing == { i \in 1..Len(required_fields) : required_fields[i] \notin e.raw_data }
    IN  IF missing # {}
        THEN LET first == CHOOSE i \in missing : \A j \in missing : i <= j
             IN  Some(<<"Missing required field: ", required_fields[first]>>)
        ELSE None

\* _validate_input: the exception it raises (as message parts), or None
_validate_input(e) ==
    LET missing == { i \in 1..Len(required_fields) : required_fields[i] \notin e.raw_data }
    IN  IF missing # {}
        THEN LET first == CHOOSE i \in missing : \A j \in missing : i <= j
             IN  Some(<<"Missing required field: ", required_fields[first]>>)
        ELSE IF e.county_id \notin CountyTable
        THEN Some(<<"County not found: ", e.county_id>>)
        ELSE None

\* get_map that looks for the map in every format
get_map_found_any_format(files, county_id, variable, period_start, period_end) ==
    \E format \in {"png", "svg"} :
        map_path(county_id, variable, period_start, period_end, format) \in DOMAIN files

\* MapStorageService.get_map seen from _check_maps: a value that is not None
\* iff the binary of the default format exists; raises on a bad period_start
get_map_found(files, county_id, variable, period_start, period_end) ==
    map_path(county_id, variable, period_start, period_end, "png") \in DOMAIN files

\* _check_maps: [raised |-> exception or None, maps_status |-> variable -> bool]
_check_maps(e, files) ==
    IF ~fromisoformat_ok(e.period_start)
    THEN [raised |-> Some(<<"Invalid period_start format: ", ToString(e.period_start)>>),
          maps_status |-> None]
    ELSE [raised |-> None,
          maps_status |->
              Some([v \in { MapVariables[i] : i \in 1..Len(MapVariables) } |->
                      get_map_found(files, e.county_id, v,
                                    e.period_start, e.period_end)])]

\* an except clause that re-raises without calling execution.fail
execute_except_unrecorded(e, exc, now) == e

\* except Exception as e: error_msg = f"Pipeline failed: {str(e)}"; execution.fail(error_msg)
execute_except(e, exc, now) == fail(e, <<"Pipeline failed: ">> \o exc, now)

\* ------------------------------------------- execute_pipeline, by segment
\* A segment result: the execution, where the coroutine now stands (pc),
\* its local maps_available, and the weather_reports table.
\*   pc: "scheduled"         not started (background task queued)
\*       "narratives_sleep"  at await asyncio.sleep(0.5) in _generate_narratives
\*       "pdf_sleep"         at await asyncio.sleep(1.0) in _generate_pdf
\*       "returned"          execute_pipeline returned the execution
\*       "raised"            execute_pipeline raised PipelineError

\* execute_pipeline from its first line to the sleep of _generate_narratives
execute_from_start(e0, rows, now, insert_ok) ==
    LET e1 == update_stage(start(e0, now), VALIDATING, 5, now)
        invalid == _validate_input(e1)
        e2 == update_stage(update_stage(e1, VALIDATING, 10, now),
                           GENERATING_NARRATIVES, 15, now)
        row == [county_id |-> e2.county_id, period_start |-> e2.period_start,
                period_end |-> e2.period_end, raw_data |-> e2.raw_data]
    IN  IF invalid # None
        THEN [exec |-> execute_except(e1, invalid[1], now), pc |-> "raised",
              maps_available |-> None, rows |-> rows]
        ELSE IF ~insert_ok
        THEN [exec |-> execute_except(e2, <<"weather report insert failed">>, now),
              pc |-> "raised", maps_available |-> None, rows |-> rows]
        ELSE [exec |-> [e2 EXCEPT !.weather_report_id = Some(Len(rows) + 1)],
              pc |-> "narratives_sleep", maps_available |-> None,
              rows |-> Append(rows, row)]

\* that segment with the maps looked up under the narratives stage, without
\* the two update_stage calls of the maps stage
execute_after_narratives_skipping_maps(e0, files, now) ==
    LET e1 == update_stage(e0, GENERATING_NARRATIVES, 40, now)
        checked == _check_maps(e1, files)
        e2 == update_stage(e1, GENERATING_PDF, 55, now)
    IN  IF checked.raised # None
        THEN [exec |-> execute_except(e1, checked.raised[1], now), pc |-> "raised",
              maps_available |-> None]
        ELSE [exec |-> e2, pc |-> "pdf_sleep", maps_available |-> checked.maps_status]

\* that segment with the progress of the pdf stage written as 5 for 55
execute_after_narratives_low_progress(e0, files, now) ==
    LET e1 == update_stage(update_stage(e0, GENERATING_NARRATIVES, 40, now),
                           AWAITING_MAPS, 45, now)
        checked == _check_maps(e1, files)
        e2 == update_stage(update_stage(e1, AWAITING_MAPS, 50, now),
                           GENERATING_PDF, 5, now)
    IN  IF checked.raised # None
        THEN [exec |-> execute_except(e1, checked.raised[1], now), pc |-> "raised",
              maps_available |-> None]
        ELSE [exec |-> e2, pc |-> "pdf_sleep", maps_available |-> checked.maps_status]

\* from the end of that sleep to the sleep of _generate_pdf
execute_after_narratives(e0, files, now) ==
    LET e1 == update_stage(update_stage(e0, GENERATING_NARRATIVES, 40, now),
                           AWAITING_MAPS, 45, now)
        checked == _check_maps(e1, files)
        e2 == update_stage(update_stage(e1, AWAITING_MAPS, 50, now),
                           GENERATING_PDF, 55, now)
    IN  IF checked.raised # None
        THEN [exec |-> execute_except(e1, checked.raised[1], now), pc |-> "raised",
              maps_available |-> None]
        ELSE [exec |-> e2, pc |-> "pdf_sleep", maps_available |-> checked.maps_status]

\* from the end of that sleep to the return
execute_after_pdf(e0, now) ==
    LET e1 == [e0 EXCEPT !.pdf_report_id = e0.weather_report_id]
        e2 == update_stage(update_stage(e1, GENERATING_PDF, 80, now),
                           STORING_ARTIFACTS, 85, now)
        e3 == update_stage(e2, STORING_ARTIFACTS, 95, now)
    IN  [exec |-> complete(e3, now), pc |-> "returned"]

\* -------------------------------------------------------- PipelineService
\* str(uuid.uuid4()): an id no execution has; the model numbers the
\* executions in the order of their creation, which is the order in which
\* the dict active_pipelines iterates
next_id(registry) == Cardinality(DOMAIN registry) + 1

\* create_pipeline that assigns a new dict holding the new execution
create_pipeline_single(registry, id, county_id, period_start, period_end, raw_data) ==
    (id :> PipelineExecution(county_id, period_start, period_end, raw_data))

\* create_pipeline
create_pipeline(registry, id, county_id, period_start, period_end, raw_data) ==
    (id :> PipelineExecution(county_id, period_start, period_end, raw_data)) @@ registry

\* get_pipeline
get_pipeline(registry, id) ==
    IF id \in DOMAIN registry THEN Some(registry[id]) ELSE None

\* p.started_at or datetime.min
started_key(e) == IF e.started_at = None THEN -1 ELSE e.started_at[1]

\* list.sort(key=started_key, reverse=True): descending, equal keys in their
\* original order
RECURSIVE sort_started_at_reverse(_, _)
sort_started_at_reverse(registry, ids) ==
    IF ids = << >> THEN << >>
    ELSE LET rest == sort_started_at_reverse(registry, Tail(ids))
             k == started_key(registry[Head(ids)])
             before == Cardinality({ i \in 1..Len(rest) : started_key(registry[rest[i]]) > k })
         IN  SubSeq(rest, 1, before) \o <<Head(ids)>> \o SubSeq(rest, before + 1, Len(rest))

\* the same list sorted without reverse=True
RECURSIVE sort_started_at(_, _)
sort_started_at(registry, ids) ==
    IF ids = << >> THEN << >>
    ELSE LET rest == sort_started_at(registry, Tail(ids))
             k == started_key(registry[Head(ids)])
             before == Cardinality({ i \in 1..Len(rest) : started_key(registry[rest[i]]) < k })
         IN  SubSeq(rest, 1, before) \o <<Head(ids)>> \o SubSeq(rest, before + 1, Len(rest))

\* Python truth of an optional string argument: neither None nor ""
truthy(arg) == arg # None /\ arg[1] # ""

\* list_pipelines without reverse=True
list_pipelines_ascending(registry, county_id, status) ==
    LET all == [i \in 1..Cardinality(DOMAIN registry) |-> i]
        county_match(id) == truthy(county_id) => registry[id].county_id = county_id[1]
        status_match(id) == truthy(status) => registry[id].status = status[1]
    IN  sort_started_at(registry, SelectSeq(SelectSeq(all, county_match), status_match))

\* list_pipelines: the ids of the executions returned, in order
list_pipelines(registry, county_id, status) ==
    LET all == [i \in 1..Cardinality(DOMAIN registry) |-> i]
        county_match(id) == truthy(county_id) => registry[id].county_id = county_id[1]
        status_match(id) == truthy(status) => registry[id].status = status[1]
    IN  sort_started_at_reverse(registry,
                                SelectSeq(SelectSeq(all, county_match), status_match))

\* ----------------------------------------------------------------- cancel
\* cancel_pipeline that refuses only a completed execution
cancel_execution_failed_unchecked(e, now) ==
    IF e.status \in {COMPLETED}
    THEN [exec |-> e, ret |-> FALSE]
    ELSE [exec |-> [e EXCEPT !.status = CANCELLED, !.completed_at = Some(now)],
          ret |-> TRUE]

\* cancel_pipeline that refuses only a failed execution
cancel_execution_completed_unchecked(e, now) ==
    IF e.status \in {FAILED}
    THEN [exec |-> e, ret |-> FALSE]
    ELSE [exec |-> [e EXCEPT !.status = CANCELLED, !.completed_at = Some(now)],
          ret |-> TRUE]

\* cancel_pipeline on a registered execution: the execution and the result
cancel_execution(e, now) ==
    IF e.status \in {COMPLETED, FAILED}
    THEN [exec |-> e, ret |-> FALSE]
    ELSE [exec |-> [e EXCEPT !.status = CANCELLED, !.completed_at = Some(now)],
          ret |-> TRUE]

\* ------------------------------------------------------- MapStorageService
\* MapMetadata.__init__ (width_px, height_px, bounds and quality_flags are
\* carried like resolution_dpi and left out)
MapMetadata(county_id, variable, period_start, period_end, file_path, format, generated_at, metadata) ==
    [ county_id |-> county_id,
      variable |-> variable,
      period_start |-> period_start,
      period_end |-> period_end,
      file_path |-> file_path,
      format |-> format,
      resolution_dpi |-> metadata.resolution_dpi,
      generated_at |-> generated_at,
      extra |-> metadata.extra ]

\* MapMetadata.to_dict: the named fields, then the extra keys beside them
to_dict(m) ==
    [ county_id |-> m.county_id,
      variable |-> m.variable,
      period_start |-> m.period_start,
      period_end |-> m.period_end,
      file_path |-> m.file_path,
      format |-> m.format,
      resolution_dpi |-> m.resolution_dpi,
      generated_at |-> m.generated_at,
      rest |-> m.extra ]

\* MapMetadata.from_dict: reads the named keys only
from_dict(data) ==
    [ county_id |-> data.county_id,
      variable |-> data.variable,
      period_start |-> data.period_start,
      period_end |-> data.period_end,
      file_path |-> data.file_path,
      format |-> data.format,
      resolution_dpi |-> data.resolution_dpi,
      generated_at |-> data.generated_at,
      extra |-> {} ]

\* a file system map with one file written
write_file(fs, path, content) ==
    [p \in DOMAIN fs \cup {path} |-> IF p = path THEN content ELSE fs[p]]

\* a file system map with one file removed
unlink(fs, path) == [p \in DOMAIN fs \ {path} |-> fs[p]]

\* the result of a store call: the files, the exception raised or None, the
\* MapMetadata returned or None, and what delete_map returned
StoreResult(files, sidecars, raised, ret) ==
    [files |-> files, sidecars |-> sidecars, raised |-> raised, ret |-> ret,
     deleted |-> FALSE]

\* store_map that reports a sidecar it could not write
store_map_sidecar_required(files, sidecars, source_file, county_id, variable, period_start, period_end, format, metadata, overwrite, now, sidecar_write) ==
    LET dest_path == map_path(county_id, variable, period_start, period_end, format)
        meta_path == _metadata_path(dest_path)
        map_metadata == MapMetadata(county_id, variable, period_start, period_end,
                                    dest_path, format, now, metadata)
    IN  IF source_file = None
        THEN StoreResult(files, sidecars, Some("Source file not found: "), None)
        ELSE IF ~fromisoformat_ok(period_start)
        THEN StoreResult(files, sidecars, Some("Invalid period_start format: "), None)
        ELSE IF dest_path \in DOMAIN files /\ ~overwrite
        THEN IF meta_path \in DOMAIN sidecars
             THEN IF sidecars[meta_path] = None
                  THEN StoreResult(files, sidecars, Some("JSONDecodeError"), None)
                  ELSE StoreResult(files, sidecars, None,
                                   Some(from_dict(sidecars[meta_path][1])))
             ELSE StoreResult(files, sidecars,
                              Some("Map exists but metadata missing: "), None)
        ELSE CASE sidecar_write = "ok" ->
                      StoreResult(write_file(files, dest_path, source_file[1]),
                                  write_file(sidecars, meta_path, Some(to_dict(map_metadata))),
                                  None, Some(map_metadata))
               [] sidecar_write = "open_failed" ->
                      StoreResult(write_file(files, dest_path, source_file[1]), sidecars,
                                  Some("Failed to save metadata: "), None)
               [] sidecar_write = "write_failed" ->
                      StoreResult(write_file(files, dest_path, source_file[1]),
                                  write_file(sidecars, meta_path, None),
                                  Some("Failed to save metadata: "), None)

\* store_map
store_map(files, sidecars, source_file, county_id, variable, period_start, period_end, format, metadata, overwrite, now, sidecar_write) ==
    LET dest_path == map_path(county_id, variable, period_start, period_end, format)
        meta_path == _metadata_path(dest_path)
        map_metadata == MapMetadata(county_id, variable, period_start, period_end,
                                    dest_path, format, now, metadata)
    IN  IF source_file = None
        THEN StoreResult(files, sidecars, Some("Source file not found: "), None)
        ELSE IF ~fromisoformat_ok(period_start)
        THEN StoreResult(files, sidecars, Some("Invalid period_start format: "), None)
        ELSE IF dest_path \in DOMAIN files /\ ~overwrite
        THEN IF meta_path \in DOMAIN sidecars
             THEN IF sidecars[meta_path] = None
                  THEN StoreResult(files, sidecars, Some("JSONDecodeError"), None)
                  ELSE StoreResult(files, sidecars, None,
                                   Some(from_dict(sidecars[meta_path][1])))
             ELSE StoreResult(files, sidecars,
                              Some("Map exists but metadata missing: "), None)
        ELSE StoreResult(
                 write_file(files, dest_path, source_file[1]),
                 CASE sidecar_write = "ok" ->
                          write_file(sidecars, meta_path, Some(to_dict(map_metadata)))
                   [] sidecar_write = "open_failed" -> sidecars
                   [] sidecar_write = "write_failed" ->
                          write_file(sidecars, meta_path, None),
                 None, Some(map_metadata))

\* get_map that treats a binary without sidecar as store_map does
get_map_requires_sidecar(files, sidecars, county_id, variable, period_start, period_end, format, now) ==
    LET map_file_path == map_path(county_id, variable, period_start, period_end, format)
        meta_path == _metadata_path(map_file_path)
    IN  IF ~fromisoformat_ok(period_start)
        THEN StoreResult(files, sidecars, Some("Invalid period_start format: "), None)
        ELSE IF map_file_path \notin DOMAIN files
        THEN StoreResult(files, sidecars, None, None)
        ELSE IF meta_path \notin DOMAIN sidecars
        THEN StoreResult(files, sidecars, Some("Map exists but metadata missing: "), None)
        ELSE IF sidecars[meta_path] # None
        THEN StoreResult(files, sidecars, None, Some(from_dict(sidecars[meta_path][1])))
        ELSE StoreResult(files, sidecars, None,
                         Some(MapMetadata(county_id, variable, period_start, period_end,
                                          map_file_path, format, now, NoMetadata)))

\* get_map
get_map(files, sidecars, county_id, variable, period_start, period_end, format, now) ==
    LET map_file_path == map_path(county_id, variable, period_start, period_end, format)
        meta_path == _metadata_path(map_file_path)
    IN  IF ~fromisoformat_ok(period_start)
        THEN StoreResult(files, sidecars, Some("Invalid period_start format: "), None)
        ELSE IF map_file_path \notin DOMAIN files
        THEN StoreResult(files, sidecars, None, None)
        ELSE IF meta_path \in DOMAIN sidecars /\ sidecars[meta_path] # None
        THEN StoreResult(files, sidecars, None, Some(from_dict(sidecars[meta_path][1])))
        ELSE StoreResult(files, sidecars, None,
                         Some(MapMetadata(county_id, variable, period_start, period_end,
                                          map_file_path, format, now, NoMetadata)))

\* delete_map that unlinks without looking whether the binary exists
delete_map_unchecked(files, sidecars, county_id, variable, period_start, period_end, format) ==
    LET map_file_path == map_path(county_id, variable, period_start, period_end, format)
        meta_path == _metadata_path(map_file_path)
    IN  IF ~fromisoformat_ok(period_start)
        THEN StoreResult(files, sidecars, Some("Invalid period_start format: "), None)
        ELSE IF map_file_path \notin DOMAIN files
        THEN StoreResult(files, sidecars, Some("FileNotFoundError"), None)
        ELSE [StoreResult(unlink(files, map_file_path), unlink(sidecars, meta_path),
                          None, None) EXCEPT !.deleted = TRUE]

\* delete_map
delete_map(files, sidecars, county_id, variable, period_start, period_end, format) ==
    LET map_file_path == map_path(county_id, variable, period_start, period_end, format)
        meta_path == _metadata_path(map_file_path)
    IN  IF ~fromisoformat_ok(period_start)
        THEN StoreResult(files, sidecars, Some("Invalid period_start format: "), None)
        ELSE IF map_file_path \notin DOMAIN files
        THEN StoreResult(files, sidecars, None, None)
        ELSE [StoreResult(unlink(files, map_file_path), unlink(sidecars, meta_path),
                          None, None) EXCEPT !.deleted = TRUE]

\* Python truth of an optional int argument: neither None nor 0
truthy_int(arg) == arg # None /\ arg[1] # 0

\* the directories list_maps searches. A directory exists once store_map has
\* made it; one that holds no binary contributes nothing to the listing, so
\* the directories are read off the binaries.
search_dirs(files, county_id, year, week) ==
    IF truthy(county_id) /\ truthy_int(year) /\ truthy_int(week)
    THEN { <<county_id[1], year[1], week_dir(week[1])>> }
    ELSE IF truthy(county_id)
    THEN { SubSeq(p, 1, 3) : p \in { q \in DOMAIN files : q[1] = county_id[1] } }
    ELSE { SubSeq(p, 1, 3) : p \in DOMAIN files }

\* every arrangement of a set of files in a sequence
orderings(S) ==
    { seq \in [1..Cardinality(S) -> S] :
        \A i, j \in 1..Cardinality(S) : i # j => seq[i] # seq[j] }

\* the binaries list_maps reports: search_dir.glob("*.png") with a sidecar
\* that exists and loads, and the variable of the sidecar if one is asked for
listed_png(files, sidecars, county_id, variable, year, week) ==
    { p \in DOMAIN files :
        /\ SubSeq(p, 1, 3) \in search_dirs(files, county_id, year, week)
        /\ p[4][5] = "png"
        /\ _metadata_path(p) \in DOMAIN sidecars
        /\ sidecars[_metadata_path(p)] # None
        /\ variable # None =>
               from_dict(sidecars[_metadata_path(p)][1]).variable = variable[1] }

\* list_maps: the lists it can return. sorted() is stable and the order in
\* which the directories and their files are visited is the file system's,
\* so entries generated at the same time come in any order.
list_maps(files, sidecars, county_id, variable, year, week) ==
    LET meta(p) == from_dict(sidecars[_metadata_path(p)][1])
        found == listed_png(files, sidecars, county_id, variable, year, week)
        newest_first == { seq \in orderings(found) :
                      \A i, j \in 1..Cardinality(found) :
                          i < j => meta(seq[i]).generated_at >= meta(seq[j]).generated_at }
    IN  { [i \in 1..Cardinality(found) |-> meta(seq[i])] : seq \in newest_first }

\* a record of one store call: what was called with what, and the outcome
StoreCall(op, path, overwrite, sidecar_write, r) ==
    [ op |-> op, path |-> path, overwrite |-> overwrite,
      sidecar_write |-> sidecar_write,
      raised |-> r.raised, ret |-> r.ret, deleted |-> r.deleted ]

NoStoreCall ==
    StoreCall("none", map_path("", "", <<0, 0, 0>>, <<0, 0, 0>>, ""), FALSE, "none", StoreResult(<< >>, << >>, None, None))

\* ---------------------------------------------------------------- actions
\* how a returned bool is shown in last_call (every ret there is a string)
str(b) == IF b THEN "True" ELSE "False"

Init ==
    /\ active_pipelines = << >>
    /\ tasks = << >>
    /\ weather_reports = << >>
    /\ \E present \in {{}, MapCandidates} :
          /\ map_files = [path \in { map_path(m[1], m[2], m[3], m[4], m[5]) : m \in present }
                            |-> "a"]
          /\ map_sidecars = << >>
    /\ clock = 0
    /\ last_call = [op |-> "none", id |-> 0, ret |-> "none"]
    /\ last_store = NoStoreCall

\* POST /process: create_pipeline, then execute_pipeline in the background
\* (async_mode) or awaited in the handler
process_report(id, county_id, period_start, period_end, raw_data, async_mode, insert_ok) ==
    /\ id = next_id(active_pipelines)
    /\ LET e0 == PipelineExecution(county_id, period_start, period_end, raw_data)
           r == execute_from_start(e0, weather_reports, clock, insert_ok)
       IN  IF async_mode
           THEN /\ active_pipelines' = create_pipeline(active_pipelines, id, county_id,
                                                       period_start, period_end, raw_data)
                /\ tasks' = tasks @@ (id :> [pc |-> "scheduled", maps_available |-> None])
                /\ weather_reports' = weather_reports
                /\ last_call' = [op |-> "process_report", id |-> id, ret |-> "accepted"]
           ELSE /\ active_pipelines' = [create_pipeline(active_pipelines, id, county_id,
                                                        period_start, period_end, raw_data)
                                          EXCEPT ![id] = r.exec]
                /\ tasks' = tasks @@ (id :> [pc |-> r.pc, maps_available |-> r.maps_available])
                /\ weather_reports' = r.rows
                /\ last_call' = [op |-> "execute_pipeline", id |-> id, ret |-> r.pc]
    /\ UNCHANGED <<map_files, map_sidecars, clock, last_store>>

\* the background task starts running execute_pipeline
execute_pipeline_start(id, insert_ok) ==
    /\ id \in DOMAIN tasks
    /\ tasks[id].pc = "scheduled"
    /\ LET r == execute_from_start(active_pipelines[id], weather_reports, clock, insert_ok)
       IN  /\ active_pipelines' = [active_pipelines EXCEPT ![id] = r.exec]
           /\ tasks' = [tasks EXCEPT ![id] = [pc |-> r.pc, maps_available |-> r.maps_available]]
           /\ weather_reports' = r.rows
           /\ last_call' = [op |-> "execute_pipeline", id |-> id, ret |-> r.pc]
    /\ UNCHANGED <<map_files, map_sidecars, clock, last_store>>

\* the sleep in _generate_narratives is over
execute_pipeline_after_narratives(id) ==
    /\ id \in DOMAIN tasks
    /\ tasks[id].pc = "narratives_sleep"
    /\ LET r == execute_after_narratives(active_pipelines[id], map_files, clock)
       IN  /\ active_pipelines' = [active_pipelines EXCEPT ![id] = r.exec]
           /\ tasks' = [tasks EXCEPT ![id] = [pc |-> r.pc, maps_available |-> r.maps_available]]
           /\ last_call' = [op |-> "execute_pipeline", id |-> id, ret |-> r.pc]
    /\ UNCHANGED <<weather_reports, map_files, map_sidecars, clock, last_store>>

\* the sleep in _generate_pdf is over
execute_pipeline_after_pdf(id) ==
    /\ id \in DOMAIN tasks
    /\ tasks[id].pc = "pdf_sleep"
    /\ LET r == execute_after_pdf(active_pipelines[id], clock)
       IN  /\ active_pipelines' = [active_pipelines EXCEPT ![id] = r.exec]
           /\ tasks' = [tasks EXCEPT ![id].pc = r.pc]
           /\ last_call' = [op |-> "execute_pipeline", id |-> id, ret |-> r.pc]
    /\ UNCHANGED <<weather_reports, map_files, map_sidecars, clock, last_store>>

\* POST /{pipeline_id}/cancel
cancel_pipeline(id) ==
    /\ IF id \notin DOMAIN active_pipelines
       THEN /\ active_pipelines' = active_pipelines
            /\ last_call' = [op |-> "cancel_pipeline", id |-> id, ret |-> str(FALSE)]
       ELSE LET r == cancel_execution(active_pipelines[id], clock)
            IN  /\ active_pipelines' = [active_pipelines EXCEPT ![id] = r.exec]
                /\ last_call' = [op |-> "cancel_pipeline", id |-> id, ret |-> str(r.ret)]
    /\ UNCHANGED <<tasks, weather_reports, map_files, map_sidecars, clock, last_store>>

\* time passes
Tick ==
    /\ clock < MaxClock
    /\ clock' = clock + 1
    /\ last_call' = [op |-> "none", id |-> 0, ret |-> "none"]
    /\ UNCHANGED <<active_pipelines, tasks, weather_reports, map_files, map_sidecars, last_store>>

Next ==
    \/ \E id \in PipelineIds, county_id \in CountyIds, period_start \in PeriodStarts,
          period_end \in PeriodEnds, raw_data \in RawPayloads,
          async_mode \in BOOLEAN, insert_ok \in BOOLEAN :
          process_report(id, county_id, period_start, period_end, raw_data,
                         async_mode, insert_ok)
    \/ \E id \in PipelineIds, insert_ok \in BOOLEAN : execute_pipeline_start(id, insert_ok)
    \/ \E id \in PipelineIds : execute_pipeline_after_narratives(id)
    \/ \E id \in PipelineIds : execute_pipeline_after_pdf(id)
    \/ \E id \in PipelineIds : cancel_pipeline(id)
    \/ Tick

Spec == Init /\ [][Next]_vars

\* ----------------------------------------------- the map store on its own
\* The pipeline only reads the store (get_map in _check_maps, within one
\* segment); the calls that write it come from api/v1/maps.py and are run
\* here from an empty storage directory.
StoreInit ==
    /\ active_pipelines = << >>
    /\ tasks = << >>
    /\ weather_reports = << >>
    /\ map_files = << >>
    /\ map_sidecars = << >>
    /\ clock = 0
    /\ last_call = [op |-> "none", id |-> 0, ret |-> "none"]
    /\ last_store = NoStoreCall

\* POST /maps/upload -> store_map
store_map_call(source_file, county_id, variable, period_start, period_end, format, metadata, overwrite, sidecar_write) ==
    LET r == store_map(map_files, map_sidecars, source_file, county_id, variable,
                       period_start, period_end, format, metadata, overwrite,
                       clock, sidecar_write)
    IN  /\ map_files' = r.files
        /\ map_sidecars' = r.sidecars
        /\ last_store' = StoreCall("store_map",
                                   map_path(county_id, variable, period_start,
                                            period_end, format),
                                   overwrite, sidecar_write, r)
        /\ UNCHANGED <<active_pipelines, tasks, weather_reports, clock, last_call>>

\* GET /maps/{county_id}/{variable} -> get_map
get_map_call(county_id, variable, period_start, period_end, format) ==
    LET r == get_map(map_files, map_sidecars, county_id, variable, period_start,
                     period_end, format, clock)
    IN  /\ last_store' = StoreCall("get_map",
                                   map_path(county_id, variable, period_start,
                                            period_end, format),
                                   FALSE, "none", r)
        /\ UNCHANGED <<active_pipelines, tasks, weather_reports, map_files,
                       map_sidecars, clock, last_call>>

\* delete_map
delete_map_call(county_id, variable, period_start, period_end, format) ==
    LET r == delete_map(map_files, map_sidecars, county_id, variable, period_start,
                        period_end, format)
    IN  /\ map_files' = r.files
        /\ map_sidecars' = r.sidecars
        /\ last_store' = StoreCall("delete_map",
                                   map_path(county_id, variable, period_start,
                                            period_end, format),
                                   FALSE, "none", r)
        /\ UNCHANGED <<active_pipelines, tasks, weather_reports, clock, last_call>>

StoreNext ==
    \/ \E source_file \in SourceFiles, period_start \in PeriodStarts,
          format \in MapFormats, metadata \in MetadataInputs,
          overwrite \in BOOLEAN, sidecar_write \in SidecarWrites :
          store_map_call(source_file, "31", "rainfall", period_start,
                         <<2026, 2, 2>>, format, metadata, overwrite, sidecar_write)
    \/ \E period_start \in PeriodStarts, format \in MapFormats :
          get_map_call("31", "rainfall", period_start, <<2026, 2, 2>>, format)
    \/ \E period_start \in PeriodStarts, format \in MapFormats :
          delete_map_call("31", "rainfall", period_start, <<2026, 2, 2>>, format)
    \/ Tick

StoreSpec == StoreInit /\ [][StoreNext]_vars

\* ------------------------------------------- the source files of the store
\* source_file of the calls made here: a file with bytes, a file of zero
\* bytes (upload_map writes whatever was uploaded to its temporary file), or
\* a path that does not exist
SourceContents == {Some("a"), Some(""), None}

SourceNext ==
    \/ \E source_file \in SourceContents, format \in MapFormats,
          overwrite \in BOOLEAN, sidecar_write \in {"ok", "open_failed"} :
          store_map_call(source_file, "31", "rainfall", <<2026, 1, 27>>,
                         <<2026, 2, 2>>, format, NoMetadata, overwrite, sidecar_write)
    \/ \E format \in MapFormats :
          get_map_call("31", "rainfall", <<2026, 1, 27>>, <<2026, 2, 2>>, format)
    \/ \E format \in MapFormats :
          delete_map_call("31", "rainfall", <<2026, 1, 27>>, <<2026, 2, 2>>, format)
    \/ Tick

SourceSpec == StoreInit /\ [][SourceNext]_vars

\* -------------------------------------- the week directories of the store
\* Uploads for several reporting periods, counties and variables, and the
\* listing of what was stored.
\* (county_id, variable, period_start, period_end, format) of the uploads:
\* two periods of county 31 that start in different weeks of 2025, a period
\* of 2026 uploaded as svg, and a period of another county
WeekUploads ==
    { <<"31", "rainfall", <<2025, 1, 1>>, <<2025, 1, 7>>, "png">>,
      <<"31", "rainfall", <<2025, 12, 29>>, <<2026, 1, 4>>, "png">>,
      <<"31", "temperature", <<2026, 1, 27>>, <<2026, 2, 2>>, "svg">>,
      <<"47", "temperature", <<2026, 2, 1>>, <<2026, 2, 7>>, "png">> }

\* (county_id, variable, year, week) of the list_maps calls
ListFilters ==
    { <<None, None, None, None>>,
      <<Some("31"), None, None, None>>,
      <<None, Some("temperature"), None, None>>,
      <<Some("31"), None, Some(2026), None>>,
      <<Some("31"), None, Some(2025), Some(1)>>,
      <<Some("31"), Some("rainfall"), Some(2026), Some(5)>> }

\* GET /maps/{county_id} -> list_maps, and list_maps called with its defaults
list_maps_call(county_id, variable, year, week) ==
    /\ \E maps \in list_maps(map_files, map_sidecars, county_id, variable, year, week) :
          last_store' = [ op |-> "list_maps", path |-> NoStoreCall.path,
                          overwrite |-> FALSE, sidecar_write |-> "none",
                          raised |-> None, ret |-> maps, deleted |-> FALSE,
                          filters |-> <<county_id, variable, year, week>> ]
    /\ UNCHANGED <<active_pipelines, tasks, weather_reports, map_files,
                   map_sidecars, clock, last_call>>

WeekNext ==
    \/ \E upload \in WeekUploads, sidecar_write \in {"ok", "write_failed"} :
          store_map_call(Some("a"), upload[1], upload[2], upload[3], upload[4],
                         upload[5], NoMetadata, FALSE, sidecar_write)
    \/ \E upload \in WeekUploads :
          get_map_call(upload[1], upload[2], upload[3], upload[4], upload[5])
    \/ \E upload \in WeekUploads :
          delete_map_call(upload[1], upload[2], upload[3], upload[4], upload[5])
    \/ \E filters \in ListFilters :
          list_maps_call(filters[1], filters[2], filters[3], filters[4])
    \/ Tick

WeekSpec == StoreInit /\ [][WeekNext]_vars

\* --------------------------------------- create and list on a full registry
\* How each execution of a registry got to where it is: created and left
\* pending, or created and started at time t (which, for a county that is
\* not in the table, ends it as failed).
Histories == CountyIds \X {"pending", "started"} \X (0..MaxClock)

\* the registry, tasks and weather_reports after one process_report per
\* history, in order
RECURSIVE registry_after(_)
registry_after(histories) ==
    IF histories = << >>
    THEN [registry |-> << >>, tasks |-> << >>, rows |-> << >>]
    ELSE LET b == registry_after(SubSeq(histories, 1, Len(histories) - 1))
             h == histories[Len(histories)]
             id == next_id(b.registry)
             created == create_pipeline(b.registry, id, h[1], <<2026, 1, 27>>,
                                        <<2026, 2, 2>>, required_fields_set)
             r == execute_from_start(created[id], b.rows, h[3], TRUE)
         IN  CASE h[2] = "pending" ->
                      [registry |-> created,
                       tasks |-> b.tasks @@ (id :> [pc |-> "scheduled",
                                                     maps_available |-> None]),
                       rows |-> b.rows]
               [] h[2] = "started" ->
                      [registry |-> [created EXCEPT ![id] = r.exec],
                       tasks |-> b.tasks @@ (id :> [pc |-> r.pc,
                                                     maps_available |-> r.maps_available]),
                       rows |-> r.rows]

\* query parameters of GET /history
CountyFilters == {None, Some(""), Some("31")}
StatusFilters == {None, Some(RUNNING), Some(FAILED), Some("bogus")}
Limits == {1, 20}

\* raw_data of a create_pipeline call: complete, or empty
CreatePayloads == {required_fields_set, {}}

RegistryInit ==
    /\ \E n \in 0..MaxRegistered :
          \E histories \in [1..n -> Histories] :
              LET b == registry_after(histories)
              IN  /\ active_pipelines = b.registry
                  /\ tasks = b.tasks
                  /\ weather_reports = b.rows
    /\ map_files = << >>
    /\ map_sidecars = << >>
    /\ clock = MaxClock
    /\ last_call = [op |-> "none", id |-> 0, ret |-> "none"]
    /\ last_store = NoStoreCall

\* PipelineService.create_pipeline, as process_report calls it first
create_pipeline_call(id, county_id, period_start, period_end, raw_data) ==
    /\ id = next_id(active_pipelines)
    /\ active_pipelines' = create_pipeline(active_pipelines, id, county_id,
                                           period_start, period_end, raw_data)
    /\ last_call' = [op |-> "create_pipeline", id |-> id, ret |-> "created"]
    /\ UNCHANGED <<tasks, weather_reports, map_files, map_sidecars, clock, last_store>>

\* GET /history
list_pipeline_history(county_id, status, limit) ==
    /\ IF truthy(status) /\ status[1] \notin {PENDING, RUNNING, COMPLETED, FAILED, CANCELLED}
       THEN last_call' = [op |-> "list_pipelines", id |-> 0, ret |-> "raised",
                          county_id |-> county_id, status |-> status,
                          pipelines |-> << >>, response |-> << >>]
       ELSE LET pipelines == list_pipelines(active_pipelines, county_id, status)
            IN  last_call' = [op |-> "list_pipelines", id |-> 0, ret |-> "returned",
                              county_id |-> county_id, status |-> status,
                              pipelines |-> pipelines,
                              response |-> SubSeq(pipelines, 1,
                                                  IF limit < Len(pipelines)
                                                  THEN limit ELSE Len(pipelines))]
    /\ UNCHANGED <<active_pipelines, tasks, weather_reports, map_files, map_sidecars,
                   clock, last_store>>

RegistryNext ==
    \/ \E id \in 1..MaxRegistered, county_id \in CountyIds,
          period_start \in PeriodStarts, raw_data \in CreatePayloads :
          create_pipeline_call(id, county_id, period_start, <<2026, 2, 2>>, raw_data)
    \/ \E county_id \in CountyFilters, status \in StatusFilters, limit \in Limits :
          list_pipeline_history(county_id, status, limit)

RegistrySpec == RegistryInit /\ [][RegistryNext]_vars

\* ------------------------------------------------------------ properties
Registered == DOMAIN active_pipelines

\* position of a stage in the order of PipelineStage; "failed" precedes all
StageRank(stage) ==
    CASE stage = STAGE_FAILED -> 0
      [] stage = VALIDATING -> 1
      [] stage = GENERATING_NARRATIVES -> 2
      [] stage = AWAITING_MAPS -> 3
      [] stage = GENERATING_PDF -> 4
      [] stage = STORING_ARTIFACTS -> 5
      [] stage = STAGE_COMPLETED -> 6

\* C1: once status is completed, failed or cancelled, no step changes the
\* execution's status, current_stage or progress.
TerminalMonotonicity ==
    [][\A id \in Registered :
          active_pipelines[id].status \in TerminalStatuses =>
             /\ active_pipelines'[id].status = active_pipelines[id].status
             /\ active_pipelines'[id].current_stage = active_pipelines[id].current_stage
             /\ active_pipelines'[id].progress = active_pipelines[id].progress]_vars

CancelRefused ==
    [][\A id \in PipelineIds :
          (/\ last_call'.op = "cancel_pipeline"
           /\ last_call'.id = id
           /\ \/ id \notin Registered
              \/ active_pipelines[id].status \in {COMPLETED, FAILED}) =>
             /\ last_call'.ret = str(FALSE)
             /\ active_pipelines' = active_pipelines]_vars

CancelRefusedWitness ==
    /\ last_call.op = "cancel_pipeline"
    /\ last_call.ret = str(FALSE)
    /\ last_call.id \in Registered
    /\ active_pipelines[last_call.id].status = FAILED

\* C5: completed_at is None until a terminal status is entered, is set
\* whenever status is failed or cancelled, and once set is never written again.
CompletedAtSetOnce ==
    [][\A id \in DOMAIN active_pipelines' :
          LET before == IF id \in Registered
                        THEN active_pipelines[id].completed_at ELSE None
              after == active_pipelines'[id]
          IN  /\ after.status \in {FAILED, CANCELLED} => after.completed_at # None
              /\ (before = None /\ after.completed_at # None) =>
                    after.status \in TerminalStatuses
              /\ before # None => after.completed_at = before]_vars

\* C6: error is set if and only if status is failed.
ErrorIffFailed ==
    \A id \in Registered :
        (active_pipelines[id].error # None) <=> (active_pipelines[id].status = FAILED)

ErrorIffFailedWitness ==
    \E id \in Registered :
        /\ active_pipelines[id].status = FAILED
        /\ active_pipelines[id].error # None
        /\ tasks[id].pc = "raised"

\* C7: progress = 100 implies status completed.
FullProgressIsCompleted ==
    \A id \in Registered :
        active_pipelines[id].progress = 100 => active_pipelines[id].status = COMPLETED

FullProgressIsCompletedWitness ==
    \E id \in Registered :
        /\ active_pipelines[id].progress = 100
        /\ last_call.op = "cancel_pipeline"
        /\ last_call.id = id

StagesCompletedAreFinished ==
    \A id \in Registered :
        LET sc == active_pipelines[id].stages_completed
        IN  /\ \A i, j \in 1..Len(sc) : i # j => sc[i] # sc[j]
            /\ \A i \in 1..Len(sc) : sc[i] # active_pipelines[id].current_stage

\* the entries of a sequence in order of first occurrence
RECURSIVE FirstOccurrences(_)
FirstOccurrences(seq) ==
    IF seq = << >> THEN << >>
    ELSE LET front == FirstOccurrences(SubSeq(seq, 1, Len(seq) - 1))
             last == seq[Len(seq)]
         IN  IF \E i \in 1..Len(front) : front[i] = last
             THEN front ELSE Append(front, last)

PayloadValid(e) ==
    /\ \A i \in 1..Len(required_fields) : required_fields[i] \in e.raw_data
    /\ e.county_id \in CountyTable

CollaboratorFailed(e) ==
    /\ e.error # None
    /\ e.error[1][2] \in {"weather report insert failed", "Invalid period_start format: "}

FirstSegmentRan(id) ==
    /\ id \in DOMAIN tasks'
    /\ tasks'[id].pc # "scheduled"
    /\ id \in DOMAIN tasks => tasks[id].pc = "scheduled"

\* C11: when Execute runs on an execution whose raw_data lacks a required
\* field or whose county is not in the counties table, it ends by raising
\* with status failed, stage failed and an error naming the first missing
\* field or the county; no artifact id is set and no weather report row is
\* inserted.
ValidationFailure ==
    [][\A id \in PipelineIds :
          (FirstSegmentRan(id) /\ ~PayloadValid(active_pipelines'[id])) =>
             LET e == active_pipelines'[id]
             IN  /\ tasks'[id].pc = "raised"
                 /\ last_call'.ret = "raised"
                 /\ e.status = FAILED
                 /\ e.current_stage = STAGE_FAILED
                 /\ e.error # None
                 /\ e.error[1][1] = "Pipeline failed: "
                 /\ \/ /\ e.error[1][2] = "Missing required field: "
                       /\ \E i \in 1..Len(required_fields) :
                             /\ e.error[1][3] = required_fields[i]
                             /\ required_fields[i] \notin e.raw_data
                             /\ \A j \in 1..(i - 1) : required_fields[j] \in e.raw_data
                    \/ /\ e.error[1][2] = "County not found: "
                       /\ e.error[1][3] = e.county_id
                       /\ e.county_id \notin CountyTable
                 /\ e.weather_report_id = None
                 /\ e.complete_report_id = None
                 /\ e.pdf_report_id = None
                 /\ weather_reports' = weather_reports]_vars

ValidationFailureWitness ==
    \E id \in Registered :
        /\ tasks[id].pc = "raised"
        /\ active_pipelines[id].raw_data = {"county_id", "county_name", "variables"}
        /\ active_pipelines[id].error
             = Some(<<"Pipeline failed: ", "Missing required field: ", "period">>)
        /\ weather_reports = << >>

\* the stage in which execute_pipeline raised, read off the recorded error
FailedIn(e) ==
    CASE e.error[1][2] \in {"Missing required field: ", "County not found: "} -> VALIDATING
      [] e.error[1][2] = "weather report insert failed" -> GENERATING_NARRATIVES
      [] e.error[1][2] = "Invalid period_start format: " -> AWAITING_MAPS

\* C12: when execute_pipeline has raised, the registry shows status failed,
\* stage failed, an error and completed_at; nothing of a stage after the one
\* that raised was done (no such stage was entered, its artifact id is None),
\* and no later step changes the execution or runs its coroutine again.
StageFailureIsFinal ==
    [][\A id \in DOMAIN tasks' :
          tasks'[id].pc = "raised" =>
             LET e == active_pipelines'[id]
             IN  /\ e.status = FAILED
                 /\ e.current_stage = STAGE_FAILED
                 /\ e.error # None
                 /\ e.completed_at # None
                 /\ \A i \in 1..Len(e.stages_completed) :
                       StageRank(e.stages_completed[i]) <= StageRank(FailedIn(e))
                 /\ e.pdf_report_id = None
                 /\ StageRank(FailedIn(e)) <= StageRank(GENERATING_NARRATIVES) =>
                       e.weather_report_id = None
                 /\ (id \in DOMAIN tasks /\ tasks[id].pc = "raised") =>
                       /\ active_pipelines'[id] = active_pipelines[id]
                       /\ tasks'[id] = tasks[id]]_vars

StageFailureIsFinalWitness ==
    \E id \in Registered :
        /\ tasks[id].pc = "raised"
        /\ FailedIn(active_pipelines[id]) = AWAITING_MAPS
        /\ active_pipelines[id].weather_report_id # None
        /\ last_call.op = "cancel_pipeline"
        /\ last_call.id = id

\* progress values written while the execution is in a stage
StageRange(stage) ==
    CASE stage = VALIDATING -> 0..10
      [] stage = GENERATING_NARRATIVES -> 10..40
      [] stage = AWAITING_MAPS -> 40..50
      [] stage = GENERATING_PDF -> 50..80
      [] stage = STORING_ARTIFACTS -> 80..100
      [] OTHER -> {}

\* C13: whenever status is running, progress lies in the range of the
\* current stage.
ProgressWithinStage ==
    \A id \in Registered :
        active_pipelines[id].status = RUNNING =>
            active_pipelines[id].progress \in StageRange(active_pipelines[id].current_stage)

ProgressWithinStageWitness ==
    \E id \in Registered :
        /\ active_pipelines[id].status = RUNNING
        /\ active_pipelines[id].current_stage = GENERATING_PDF
        /\ active_pipelines[id].progress = 55

MapsAvailabilityRecorded ==
    \A id \in Registered :
        LET e == active_pipelines[id]
        IN  /\ tasks[id].pc \in {"pdf_sleep", "returned"} =>
                 /\ tasks[id].maps_available # None
                 /\ DOMAIN tasks[id].maps_available[1]
                      = {"rainfall", "temperature", "wind"}
                 /\ \A v \in {"rainfall", "temperature", "wind"} :
                       tasks[id].maps_available[1][v]
                         <=> get_map(map_files, map_sidecars, e.county_id, v,
                                     e.period_start, e.period_end, "png",
                                     clock).ret # None
            /\ (tasks[id].pc = "raised" /\ FailedIn(e) = AWAITING_MAPS) =>
                 ~fromisoformat_ok(e.period_start)

MapsAvailabilityRecordedWitness ==
    \E id \in Registered :
        /\ tasks[id].pc = "pdf_sleep"
        /\ Cardinality(DOMAIN map_files) = Cardinality(MapCandidates)
        /\ tasks[id].maps_available[1]["rainfall"]
        /\ ~tasks[id].maps_available[1]["temperature"]
        /\ ~tasks[id].maps_available[1]["wind"]

\* this step is a store_map call on path, given an existing source file
StoreMapStep(path, overwrite) ==
    /\ clock' = clock
    /\ last_store'.op = "store_map"
    /\ last_store'.path = path
    /\ last_store'.overwrite = overwrite
    /\ last_store'.raised # Some("Source file not found: ")

\* the call before this step was a store_map(overwrite=False) that returned
FirstStoreReturned ==
    /\ last_store.op = "store_map"
    /\ ~last_store.overwrite
    /\ last_store.raised = None

\* C18: a store_map(overwrite=False) that follows a store_map(overwrite=False)
\* of the same identity (whose sidecar write, if any, succeeded) returns
\* metadata equal to what the first call returned and leaves the binaries as
\* they were.
IdempotentStore ==
    [][(/\ FirstStoreReturned
        /\ last_store.sidecar_write = "ok"
        /\ StoreMapStep(last_store.path, FALSE)) =>
          /\ last_store'.raised = None
          /\ last_store'.ret = last_store.ret
          /\ map_files' = map_files]_vars

\* get_map for the identity a path was built from, in the state after a step
GetAfter(path) ==
    get_map(map_files', map_sidecars', path[4][1], path[4][2], path[4][3],
            path[4][4], path[4][5], clock')

\* metadata m carries the named fields of the metadata stored
Describes(m, stored) == [m EXCEPT !.extra = {}] = [stored EXCEPT !.extra = {}]

\* C19: after store_map(a, overwrite=False) and then store_map(b,
\* overwrite=True) of the same identity, get_map returns the metadata of b's
\* store (its named fields).
OverwriteReplacesAlways ==
    [][(/\ FirstStoreReturned
        /\ StoreMapStep(last_store.path, TRUE)) =>
          /\ last_store'.raised = None
          /\ GetAfter(last_store.path).ret # None
          /\ Describes(GetAfter(last_store.path).ret[1], last_store'.ret[1])]_vars

\* the same when the sidecar write of the overwriting call succeeds: then
\* get_map does return the metadata of b's store, generated at its time
OverwriteReplaces ==
    [][(/\ FirstStoreReturned
        /\ StoreMapStep(last_store.path, TRUE)
        /\ last_store'.sidecar_write = "ok") =>
          /\ last_store'.raised = None
          /\ GetAfter(last_store.path).ret # None
          /\ Describes(GetAfter(last_store.path).ret[1], last_store'.ret[1])
          /\ GetAfter(last_store.path).ret[1].generated_at = clock]_vars

OverwriteReplacesWitness ==
    /\ last_store.op = "store_map"
    /\ last_store.overwrite
    /\ last_store.sidecar_write = "ok"
    /\ last_store.raised = None
    /\ last_store.ret[1].generated_at > 0
    /\ last_store.ret[1].resolution_dpi = 150
    /\ map_files[last_store.path] = "b"
    /\ map_sidecars[_metadata_path(last_store.path)]
         = Some(to_dict(last_store.ret[1]))

\* C20: every stored binary has at most the sidecar written with it, and a
\* store_map on an identity that exists leaves binary and sidecar as they
\* were (overwrite=False) or replaces both (overwrite=True).
StoredPairsAtomic ==
    /\ [](\A path \in DOMAIN map_files :
            LET meta_path == _metadata_path(path)
            IN  (meta_path \in DOMAIN map_sidecars /\ map_sidecars[meta_path] # None) =>
                    map_sidecars[meta_path][1].file_path = path)
    /\ [][\A path \in DOMAIN map_files :
            LET meta_path == _metadata_path(path)
            IN  /\ StoreMapStep(path, FALSE) =>
                      /\ map_files' = map_files
                      /\ map_sidecars' = map_sidecars
                /\ (StoreMapStep(path, TRUE) /\ last_store'.raised = None) =>
                      /\ path \in DOMAIN map_files'
                      /\ meta_path \in DOMAIN map_sidecars'
                      /\ map_sidecars'[meta_path]
                           = Some(to_dict(last_store'.ret[1]))]_vars

\* C15: create_pipeline accepts any payload; the execution it registers has
\* an id no execution had, is pending with progress 0 and nothing else set,
\* get_pipeline returns it, and every execution registered before is as it was.
CreateRegisters ==
    [][last_call'.op = "create_pipeline" =>
          LET id == last_call'.id
          IN  /\ last_call'.ret = "created"
              /\ id \notin DOMAIN active_pipelines
              /\ DOMAIN active_pipelines' = DOMAIN active_pipelines \cup {id}
              /\ get_pipeline(active_pipelines', id) = Some(active_pipelines'[id])
              /\ active_pipelines'[id].status = PENDING
              /\ active_pipelines'[id].progress = 0
              /\ active_pipelines'[id]
                   = PipelineExecution(active_pipelines'[id].county_id,
                                       active_pipelines'[id].period_start,
                                       active_pipelines'[id].period_end,
                                       active_pipelines'[id].raw_data)
              /\ \A other \in DOMAIN active_pipelines :
                    active_pipelines'[other] = active_pipelines[other]]_vars

CreateRegistersWitness ==
    /\ last_call.op = "create_pipeline"
    /\ last_call.id = 2
    /\ active_pipelines[2].status = PENDING
    /\ active_pipelines[2].raw_data = {}
    /\ active_pipelines[2].period_start = <<0, 0, 0>>
    /\ active_pipelines[1].status = FAILED

week_monday(d) == toordinal(d) - ((toordinal(d) + 6) % 7)

\* ISO 8601: weeks run from Monday to Sunday and belong to the year their
\* Thursday lies in; week 1 holds the first Thursday of the year
ISOWeek(d) ==
    LET thursday == week_monday(d) + 3
        year == CHOOSE y \in (d[1] - 1)..(d[1] + 1) :
                    days_before_year(y) < thursday /\ thursday <= days_before_year(y + 1)
    IN  (thursday - days_before_year(year) - 1) \div 7 + 1

\* {countyId}/{year}/{2-digit week}/{file name} of an identity tuple
KeyOf(identity) ==
    <<identity[1], identity[3][1],
      <<ISOWeek(identity[3]) \div 10, ISOWeek(identity[3]) % 10>>, identity>>

\* this step is the named call on an identity tuple
StoreStepOn(op, identity) ==
    /\ clock' = clock
    /\ last_store'.op = op
    /\ last_store'.path[4] = identity

\* C21: store_map writes the binary of an identity tuple at
\* {county}/{calendar year of period_start}/{two-digit ISO week of
\* period_start}/{file name} and nowhere else, and get_map and delete_map look
\* at that same place: get_map finds a map exactly when a binary lies there
\* and delete_map removes exactly that binary.
KeyDerivation ==
    [][\A identity \in WeekUploads :
         LET key == KeyOf(identity)
         IN  /\ StoreStepOn("store_map", identity) =>
                   /\ key \in DOMAIN map_files'
                   /\ \A p \in DOMAIN map_files' \ {key} :
                          p \in DOMAIN map_files /\ map_files'[p] = map_files[p]
                   /\ last_store'.raised = None => last_store'.ret[1].file_path = key
             /\ StoreStepOn("get_map", identity) =>
                   /\ last_store'.ret # None <=> key \in DOMAIN map_files
                   /\ map_files' = map_files
             /\ StoreStepOn("delete_map", identity) =>
                   /\ last_store'.deleted <=> key \in DOMAIN map_files
                   /\ DOMAIN map_files' = DOMAIN map_files \ {key}]_vars

\* the map of the period starting 2026-01-27 was stored and lies under year
\* 2026, week 05
KeyDerivationWitness ==
    /\ last_store.op = "store_map"
    /\ last_store.raised = None
    /\ last_store.path[4][3] = <<2026, 1, 27>>
    /\ DOMAIN map_files = { <<"31", 2026, <<0, 5>>, last_store.path[4]>> }

\* the call of this step was made for a period_start that is a date, on an
\* identity tuple that has no binary in the store
AbsentStep(op) ==
    /\ clock' = clock
    /\ last_store'.op = op
    /\ fromisoformat_ok(last_store'.path[4][3])
    /\ last_store'.path \notin DOMAIN map_files

\* C22: for an identity tuple with a period_start that is a date and no
\* binary in the store, get_map returns None and delete_map returns False,
\* neither raises and neither changes a binary or a sidecar.
AbsenceIsNotAnError ==
    [][/\ AbsentStep("get_map") =>
             /\ last_store'.raised = None
             /\ last_store'.ret = None
             /\ map_files' = map_files /\ map_sidecars' = map_sidecars
       /\ AbsentStep("delete_map") =>
             /\ last_store'.raised = None
             /\ ~last_store'.deleted
             /\ map_files' = map_files /\ map_sidecars' = map_sidecars]_vars

\* delete_map returned False for the png of a period whose svg is stored
AbsenceIsNotAnErrorWitness ==
    /\ last_store.op = "delete_map"
    /\ last_store.raised = None
    /\ ~last_store.deleted
    /\ last_store.path[4][5] = "png"
    /\ fromisoformat_ok(last_store.path[4][3])
    /\ last_store.path \notin DOMAIN map_files
    /\ [last_store.path EXCEPT ![4][5] = "svg"] \in DOMAIN map_files

\* the call of this step was made on an identity tuple whose binary is in
\* the store and whose sidecar is not
SidecarMissingStep(op) ==
    /\ clock' = clock
    /\ last_store'.op = op
    /\ last_store'.path \in DOMAIN map_files
    /\ _metadata_path(last_store'.path) \notin DOMAIN map_sidecars

\* C23: when the binary of an identity tuple exists and its sidecar does
\* not, store_map(overwrite=False) of an existing source raises "Map exists
\* but metadata missing" and writes nothing, while get_map raises nothing and
\* returns metadata made of the identity tuple, the path and the defaults.
MissingSidecarAsymmetry ==
    [][/\ (/\ SidecarMissingStep("store_map")
           /\ ~last_store'.overwrite
           /\ last_store'.raised # Some("Source file not found: ")) =>
             /\ last_store'.raised = Some("Map exists but metadata missing: ")
             /\ last_store'.ret = None
             /\ map_files' = map_files /\ map_sidecars' = map_sidecars
       /\ SidecarMissingStep("get_map") =>
             /\ last_store'.raised = None
             /\ last_store'.ret # None
             /\ LET m == last_store'.ret[1]
                    identity == last_store'.path[4]
                IN  /\ <<m.county_id, m.variable, m.period_start, m.period_end, m.format>>
                          = identity
                    /\ m.file_path = last_store'.path
                    /\ m.resolution_dpi = 300
                    /\ m.extra = {}
                    /\ m.generated_at = clock
             /\ map_files' = map_files /\ map_sidecars' = map_sidecars]_vars

\* store_map(overwrite=False) was refused for a binary without sidecar
MissingSidecarAsymmetryWitness ==
    /\ last_store.op = "store_map"
    /\ ~last_store.overwrite
    /\ last_store.raised = Some("Map exists but metadata missing: ")
    /\ last_store.path \in DOMAIN map_files
    /\ _metadata_path(last_store.path) \notin DOMAIN map_sidecars

\* this step is a store_map call that copied the source file and could not
\* write the sidecar
SidecarWriteFailedStep ==
    /\ clock' = clock
    /\ last_store'.op = "store_map"
    /\ last_store'.sidecar_write # "ok"
    /\ last_store'.raised \notin { Some("Source file not found: "),
                                   Some("Invalid period_start format: ") }
    /\ last_store'.overwrite \/ last_store'.path \notin DOMAIN map_files

\* C24: a store_map that has written the binary and fails to write the
\* sidecar raises nothing and returns the new metadata; the binary is in
\* the store afterwards, and a get_map that follows raises nothing and
\* returns metadata.
BestEffortSidecar ==
    [][SidecarWriteFailedStep =>
         /\ last_store'.raised = None
         /\ last_store'.ret # None
         /\ LET m == last_store'.ret[1]
            IN  /\ <<m.county_id, m.variable, m.period_start, m.period_end, m.format>>
                      = last_store'.path[4]
                /\ m.file_path = last_store'.path
                /\ m.generated_at = clock
         /\ last_store'.path \in DOMAIN map_files'
         /\ GetAfter(last_store'.path).raised = None
         /\ GetAfter(last_store'.path).ret # None]_vars

\* store_map returned metadata although the sidecar was left truncated
BestEffortSidecarWitness ==
    /\ last_store.op = "store_map"
    /\ last_store.sidecar_write = "write_failed"
    /\ last_store.raised = None
    /\ last_store.ret # None
    /\ last_store.path \in DOMAIN map_files
    /\ _metadata_path(last_store.path) \in DOMAIN map_sidecars
    /\ map_sidecars[_metadata_path(last_store.path)] = None

\* C25: store_map writes nothing from a source file that is empty or does
\* not exist, so that, starting from an empty storage directory, no binary
\* in the store is empty.
EmptySourceRejected == \A path \in DOMAIN map_files : map_files[path] # ""

\* the half that holds: a source path that does not exist is refused and
\* nothing is written
MissingSourceRejected ==
    [][(/\ clock' = clock
        /\ last_store'.op = "store_map"
        /\ last_store'.raised = Some("Source file not found: ")) =>
          map_files' = map_files /\ map_sidecars' = map_sidecars]_vars

\* the stored binaries, of any format, whose sidecar loads and that match
\* every filter that was given: county, variable, calendar year and ISO week
\* of period_start
MatchingArtifacts(county_id, variable, year, week) ==
    { p \in DOMAIN map_files :
        /\ _metadata_path(p) \in DOMAIN map_sidecars
        /\ map_sidecars[_metadata_path(p)] # None
        /\ county_id # None => p[4][1] = county_id[1]
        /\ variable # None => p[4][2] = variable[1]
        /\ year # None => p[4][3][1] = year[1]
        /\ week # None => ISOWeek(p[4][3]) = week[1] }

\* C26: list_maps returns the metadata of exactly the stored binaries, of any
\* format, that have a sidecar that loads and match every filter given, the
\* most recently generated first.
ListReturnsMatching ==
    last_store.op = "list_maps" =>
        LET maps == last_store.ret
            matching == MatchingArtifacts(last_store.filters[1], last_store.filters[2],
                                          last_store.filters[3], last_store.filters[4])
        IN  /\ { maps[i] : i \in 1..Len(maps) }
                  = { from_dict(map_sidecars[_metadata_path(p)][1]) : p \in matching }
            /\ Len(maps) = Cardinality(matching)
            /\ \A i, j \in 1..Len(maps) :
                   i < j => maps[i].generated_at >= maps[j].generated_at

\* C30: two binaries of one county lie in the same
\* {county}/{year}/{week} directory only if their period_start dates fall in
\* the same Monday-to-Sunday week.
WeekDirectoryHoldsOneWeek ==
    \A p, q \in DOMAIN map_files :
        SubSeq(p, 1, 3) = SubSeq(q, 1, 3) =>
            week_monday(p[4][3]) = week_monday(q[4][3])

\* the path of the identity tuple that differs from a path's in format only
OtherFormat(path) == [path EXCEPT ![4][5] = IF @ = "png" THEN "svg" ELSE "png"]

\* get_map for the identity a path was built from, in the state before a step
GetBefore(path) ==
    get_map(map_files, map_sidecars, path[4][1], path[4][2], path[4][3],
            path[4][4], path[4][5], clock)

\* C28: store_map and delete_map on one identity tuple leave the binary, the
\* sidecar and the get_map result of the identity tuple that differs from it
\* in format only as they were.
IdentitiesIndependent ==
    [][(/\ clock' = clock
        /\ last_store'.op \in {"store_map", "delete_map"}
        /\ fromisoformat_ok(last_store'.path[4][3])) =>
          LET other == OtherFormat(last_store'.path)
              meta_path == _metadata_path(other)
          IN  /\ other \in DOMAIN map_files' <=> other \in DOMAIN map_files
              /\ other \in DOMAIN map_files => map_files'[other] = map_files[other]
              /\ other \in DOMAIN map_files =>
                    /\ meta_path \in DOMAIN map_sidecars' <=> meta_path \in DOMAIN map_sidecars
                    /\ meta_path \in DOMAIN map_sidecars =>
                           map_sidecars'[meta_path] = map_sidecars[meta_path]
              /\ GetAfter(other).ret = GetBefore(other).ret]_vars

\* ------------------------------------------------- the order of the stages
\* the stages an execution has shown, in order: those it left and the one
\* it is in
StageHistory(e) == Append(e.stages_completed, e.current_stage)

Visited(e, stage) == \E i \in 1..Len(StageHistory(e)) : StageHistory(e)[i] = stage

\* C27: the stages an execution shows start with validating and each is
\* followed by itself or by the next of validating, generating_narratives,
\* awaiting_maps, generating_pdf, storing_artifacts, completed, with failed
\* as the only other successor; no step moves current_stage backwards or out
\* of failed; and what the work of a stage leaves behind (weather_report_id,
\* maps_available, pdf_report_id) is there only if that stage has been shown.
StagesInOrder ==
    /\ [](\A id \in Registered :
            LET e == active_pipelines[id]
                h == StageHistory(e)
            IN  /\ h[1] = VALIDATING
                /\ \A i \in 1..(Len(h) - 1) :
                       \/ StageRank(h[i + 1]) - StageRank(h[i]) \in {0, 1} /\ h[i] # STAGE_FAILED
                       \/ h[i + 1] = STAGE_FAILED /\ i + 1 = Len(h)
                /\ e.weather_report_id # None => Visited(e, GENERATING_NARRATIVES)
                /\ tasks[id].maps_available # None => Visited(e, AWAITING_MAPS)
                /\ e.pdf_report_id # None => Visited(e, GENERATING_PDF))
    /\ [][\A id \in Registered :
            LET stage == active_pipelines[id].current_stage
                next == active_pipelines'[id].current_stage
            IN  next # stage =>
                    /\ stage # STAGE_FAILED
                    /\ next = STAGE_FAILED \/ StageRank(next) > StageRank(stage)]_vars

\* an execution waits in _generate_pdf with the maps looked up, having shown
\* awaiting_maps before
StagesInOrderWitness ==
    \E id \in Registered :
        /\ tasks[id].pc = "pdf_sleep"
        /\ tasks[id].maps_available # None
        /\ active_pipelines[id].current_stage = GENERATING_PDF
        /\ Visited(active_pipelines[id], AWAITING_MAPS)

\* C29: in every state, current_stage is failed exactly when status is
\* failed, and current_stage is completed exactly when status is completed,
\* whatever the order of create, execute and cancel.
StatusAgreesWithStage ==
    \A id \in Registered :
        LET e == active_pipelines[id]
        IN  /\ e.current_stage = STAGE_FAILED <=> e.status = FAILED
            /\ e.current_stage = STAGE_COMPLETED <=> e.status = COMPLETED

\* a cancel was refused on an execution that has completed
StatusAgreesWithStageWitness ==
    /\ last_call.op = "cancel_pipeline"
    /\ last_call.ret = str(FALSE)
    /\ last_call.id \in Registered
    /\ active_pipelines[last_call.id].status = COMPLETED
    /\ active_pipelines[last_call.id].current_stage = STAGE_COMPLETED
====
